---------------------------- MODULE Spec2Model ----------------------------
(***************************************************************************)
(* YCrawler (src/ycrawler.py): one cooperative coroutine, YCrawler.run,    *)
(* that polls the front page, walks the first top_news_count entries,      *)
(* archives every story not yet in parsed_news and every link found in     *)
(* its comments, and then stops (run_once) or sleeps and polls again.      *)
(*                                                                         *)
(* The state is the position of that coroutine (pc, fphase), the           *)
(* semaphore guarding read_url, the locals of run / parse_item /           *)
(* parse_comments that live across an await, the files written so far and  *)
(* the dictionary parsed_news.  What the network answers is chosen         *)
(* nondeterministically when a GET completes.                              *)
(*                                                                         *)
(* Inputs left out: an entry or comment row without an id attribute and    *)
(* an anchor without href (both raise KeyError in the code); write_file is *)
(* taken as one step.                                                      *)
(***************************************************************************)
EXTENDS Integers, Sequences, FiniteSets, TLC

(* ------------------------------ bounds -------------------------------- *)
MaxId == 2          \* story identifiers are 1..MaxId
MaxNews == 2        \* longest front-page listing
MaxK == 2           \* largest top_news_count
MaxTasks == 2       \* largest max_tasks
MaxComments == 2    \* most comment rows on a story page
MaxLinks == 2       \* most links on one story page
MaxCycles == 2      \* poll cycles of a continuous run that are explored
MaxText == 3        \* longest text given to make_safe_filename on its own

(* --------------------------- program constants ------------------------ *)
TIMEOUT_STATUS == 408
OK_STATUS == 200

None == "None"      \* Python None
Empty == "b''"      \* an empty bytes payload
Body == "bytes"     \* a non-empty bytes payload
HTML == "text/html"
NON_HTML == "image/png"

Ids == 1..MaxId
\* the statuses a server answers with: 200 and one that is not 2xx
Statuses == {OK_STATUS, 404}
CTypes == {HTML, NON_HTML}

(* ------------------------------ strings ------------------------------- *)
\* A string is a sequence of one-character strings.
Alnum == {"A", "B", "C", "1"}
Space == {" ", "\t"}
StripChars == {"_", " "}

RECURSIVE LStrip(_)
LStrip(s) == IF s # <<>> /\ Head(s) \in StripChars THEN LStrip(Tail(s)) ELSE s

RECURSIVE RStrip(_)
RStrip(s) ==
    IF s # <<>> /\ s[Len(s)] \in StripChars THEN RStrip(SubSeq(s, 1, Len(s) - 1)) ELSE s

SafeChar(c) == IF c \in Alnum \/ c \in Space THEN c ELSE "_"

make_safe_filename(text) ==
    RStrip(LStrip([i \in 1..Len(text) |-> SafeChar(text[i])])) \o <<".html">>

\* Path(url).name : the last path segment
RECURSIVE PathName(_)
PathName(url) ==
    IF \E i \in 1..Len(url) : url[i] = "/"
    THEN PathName(Tail(url))
    ELSE url

\* s.split("?")[0]
RECURSIVE BeforeQuery(_)
BeforeQuery(s) ==
    IF s = <<>> \/ Head(s) = "?" THEN <<>> ELSE <<Head(s)>> \o BeforeQuery(Tail(s))

(* --------------------------- the site's content ----------------------- *)
\* The title of story id as its front-page titleline gives it (already
\* stripped by a.text.strip()).
TitleOf(id) == IF id % 2 = 1 THEN <<"A", "/", "B", ":", " ", "C", "?">> ELSE <<"B", "1">>

\* The n-th link (1-based) of a comment.
LinkUrl(n) == IF n % 2 = 1 THEN <<"x", "/", "A", "?", "1">> ELSE <<"x", "/", "B">>

\* A front-page entry is known by its id, unique in a listing.  Whether
\* its row holds a titleline element is read once per cycle, by parse_item,
\* and is chosen there.
Distinct(s) == \A i, j \in 1..Len(s) : i # j => s[i] # s[j]

Listings ==
    UNION {{s \in [1..n -> Ids] : Distinct(s)} : n \in 0..MaxNews}

\* What BeautifulSoup makes of a front page: no <table> at all, or the
\* list of its 'athing' rows.
FrontPages == {[table |-> FALSE, rows |-> <<>>]} \cup
              {[table |-> TRUE, rows |-> l] : l \in Listings}

\* A comment row: whether it holds a 'commtext c00' node, and how many
\* links that node holds.
CommentRows == {[text |-> FALSE, links |-> 0]} \cup
               {[text |-> TRUE, links |-> n] : n \in 0..MaxLinks}

RECURSIVE SumLinks(_)
SumLinks(rows) == IF rows = <<>> THEN 0 ELSE Head(rows).links + SumLinks(Tail(rows))

CommentLists ==
    UNION {{l \in [1..n -> CommentRows] : SumLinks(l) <= MaxLinks} : n \in 0..MaxComments}

\* What BeautifulSoup makes of a story page: no <table>, a table without a
\* comment tree, or a comment tree with its rows.
StoryPages == {[table |-> FALSE, tree |-> FALSE, rows |-> <<>>],
               [table |-> TRUE, tree |-> FALSE, rows |-> <<>>]} \cup
              {[table |-> TRUE, tree |-> TRUE, rows |-> l] : l \in CommentLists}

\* How one GET can end, cancellation apart.
Outcomes == {[t |-> "timeout"], [t |-> "error"]} \cup
            {[t |-> "resp", status |-> s, body |-> b, ctype |-> c] :
                s \in Statuses, b \in {Empty, Body}, c \in CTypes}

(* ------------------------------- state -------------------------------- *)
VARIABLES
    max_tasks,        \* __init__: capacity the semaphore was created with
    top_news_count,   \* __init__
    run_once,         \* __init__
    pc,               \* where run() is: "main", "loop", "item", "link", "sleep", "stopped"
    fphase,           \* where read_url is: "none", "acquire" (before the gate), "get" (inside it)
    sem,              \* the semaphore's value
    open,             \* read_url calls inside the gate with their GET not yet over
    news,             \* run: the ids of the rows parse_main_page returned
    idx,              \* run: 1-based position of news_item in news[:top_news_count]
    comment_items,    \* parse_comments: the comment rows
    ci,               \* parse_comments: position of comment in comment_items
    li,               \* parse_comments: position of comm_url in comm_urls
    link_num,         \* parse_comments
    parsed_news,      \* run: the dictionary, as a set of [id, name, url]
    archive,          \* files written by write_file
    cycles,           \* front-page polls started
    ended,            \* how run() ended, "" while it runs
    interrupt_count,  \* SIGINTs received (asyncio.Runner._on_sigint)
    must_cancel,      \* Task.cancel() asked while run() was not suspended
    last,             \* history: the read_url call that is just over, and what its caller did
    considered,       \* history: the ids the for loop has looked at in this cycle
    failed,           \* history: the ids whose story page came back without a payload
    clean,            \* history: every GET of the story in hand came back 200 with a payload (links: as text/html)
    text,             \* make_safe_filename on its own: its argument
    filename          \* make_safe_filename on its own: its result, <<>> before the call

vars == <<max_tasks, top_news_count, run_once, pc, fphase, sem, open, news, idx,
          comment_items, ci, li, link_num, parsed_news, archive, cycles, ended,
          interrupt_count, must_cancel, last, considered, failed, clean, text,
          filename>>

fnvars == <<text, filename>>
config == <<max_tasks, top_news_count, run_once>>
locals == <<comment_items, ci, li, link_num>>

\* last in every state that does not follow the end of a read_url call.
NoResult == [kind |-> "none", outcome |-> "none", response |-> None, status |-> 0,
             raised |-> FALSE, id |-> 0, pos |-> <<0, 0>>, more |-> FALSE,
             file |-> <<>>]

\* The state when run() starts.
InitRun ==
    /\ max_tasks \in 0..MaxTasks
    /\ top_news_count \in 0..MaxK
    /\ run_once \in BOOLEAN
    /\ pc = "main"
    /\ fphase = "acquire"
    /\ sem = max_tasks
    /\ open = 0
    /\ news = <<>>
    /\ idx = 0
    /\ comment_items = <<>>
    /\ ci = 0
    /\ li = 0
    /\ link_num = 0
    /\ parsed_news = {}
    /\ archive = {}
    /\ cycles = 1
    /\ ended = ""
    /\ interrupt_count = 0
    /\ must_cancel = FALSE
    /\ last = NoResult
    /\ considered = <<>>
    /\ failed = {}
    /\ clean = FALSE

Init ==
    /\ InitRun
    /\ text = <<>>
    /\ filename = <<>>

(* ------------------------------ read_url ------------------------------ *)
\* (mutant: the gate lets every caller in)
CanAcquire_mut(s) == TRUE

\* The semaphore lets a caller in when its value is positive.
CanAcquire(s) == s > 0

\* (mutant: no except clause)
Caught_mut(o) == FALSE

\* except TimeoutError
Caught(o) == o.t = "timeout"

\* An exception of the GET that read_url does not catch.
Escapes(o) == o.t # "resp" /\ ~Caught(o)

\* (response, content_type, status) as read_url returns them.
ReadUrlResult(o) ==
    IF o.t = "resp"
    THEN [response |-> o.body, content_type |-> o.ctype, status |-> o.status]
    ELSE [response |-> None, content_type |-> None, status |-> TIMEOUT_STATUS]

\* not response
Falsy(response) == response \in {None, Empty}

\* (mutant: the permit is not handed back)
Exit_mut == sem' = sem /\ open' = open - 1

\* Leaving "async with self.semaphore", however the body ended.
Exit == sem' = sem + 1 /\ open' = open - 1

\* run() is suspended in an await that has not completed.
Suspended ==
    \/ fphase = "get"
    \/ fphase = "acquire" /\ ~CanAcquire(sem)
    \/ pc = "sleep"

\* The history record of a read_url call: kind of caller, how the GET ended,
\* what was returned or that an exception left read_url, the story and the
\* (comment, link) it was for, whether links were left after it, and the
\* name of the file the caller wrote ( <<>> for none).
Returned(kind, o, id, pos, more, file) ==
    [kind |-> kind, outcome |-> o.t,
     response |-> IF Escapes(o) THEN None ELSE ReadUrlResult(o).response,
     status |-> IF Escapes(o) THEN 0 ELSE ReadUrlResult(o).status,
     raised |-> Escapes(o), id |-> id, pos |-> pos, more |-> more, file |-> file]

(* ------------------------ parse_comments helpers ---------------------- *)
\* len(comm_urls) of a comment row
NumLinks(c) == IF c.text THEN c.links ELSE 0

Positions(rows) ==
    UNION {{<<c, l>> : l \in 1..NumLinks(rows[c])} : c \in 1..Len(rows)}

After(p, q) == q[1] > p[1] \/ (q[1] = p[1] /\ q[2] > p[2])

\* (mutant: the loops jump to the last link that is left)
NextPos_mut(rows, p) ==
    LET S == {q \in Positions(rows) : After(p, q)}
    IN  IF S = {} THEN <<0, 0>>
        ELSE CHOOSE q \in S : \A r \in S : r = q \/ After(r, q)

\* The next (comment, link) the two nested for loops reach after p;
\* <<0, 0>> when both loops are exhausted.
NextPos(rows, p) ==
    LET S == {q \in Positions(rows) : After(p, q)}
    IN  IF S = {} THEN <<0, 0>>
        ELSE CHOOSE q \in S : \A r \in S : r = q \/ After(q, r)

\* comment['id'] of the c-th comment row of a story page
CommentId(story, c) == 10 * story + c

\* if not response or status != 200: ... continue
LinkSkipped(r) == Falsy(r.response) \/ r.status # OK_STATUS

\* (mutant: a skipped link ends the loops, break for continue)
AfterLink_mut(rows, p, r) == IF LinkSkipped(r) THEN <<0, 0>> ELSE NextPos(rows, p)

\* Where the loops stand once the link at p has been dealt with: a skipped
\* link and an archived one both lead to the next pass.
AfterLink(rows, p, r) == NextPos(rows, p)

CommentFileName(comm_id, num, ctype, url) ==
    IF ctype = HTML
    THEN <<ToString(comm_id), "_", ToString(num), ".html">>
    ELSE <<ToString(comm_id), "_", ToString(num), "_">> \o BeforeQuery(PathName(url))

CommentFile(story, name) == [story |-> story, comments |-> TRUE, name |-> name]

\* (mutant: link_num is never incremented)
LinkNumAfter_mut(num, r) == num

\* link_num after one pass of the inner for loop
LinkNumAfter(num, r) == IF LinkSkipped(r) THEN num ELSE num + 1

(* -------------------------- parse_item helpers ------------------------ *)
\* (mutant: the test of the payload is missing)
ItemSkipped_mut(r) == FALSE

\* if not response: ... return
ItemSkipped(r) == Falsy(r.response)

StoryFile(id) ==
    [story |-> id, comments |-> FALSE, name |-> make_safe_filename(TitleOf(id))]

\* The (name, url) pair parse_item returns, keyed as run() stores it.
NameUrl(id) == [id |-> id, name |-> TitleOf(id), url |-> <<"item?id=", ToString(id)>>]

(* ----------------------------- run helpers ---------------------------- *)
\* (mutant: the status of the front page is not looked at)
MainFailed_mut(r) == Falsy(r.response)

\* if not response or status != 200: ... return None
MainFailed(r) == Falsy(r.response) \/ r.status # OK_STATUS

\* (mutant: an empty listing is not noticed)
NoNews_mut(rows) == FALSE

\* if not news: ... break
NoNews(rows) == rows = <<>>

\* (mutant: the slice is missing)
Top_mut == news

\* news[:self.top_news_count]
Top == SubSeq(news, 1, IF top_news_count < Len(news) THEN top_news_count ELSE Len(news))

\* (mutant: the membership test never succeeds)
InParsedNews_mut(id) == FALSE

\* news_item['id'] in parsed_news
InParsedNews(id) == \E e \in parsed_news : e.id = id

\* (mutant: the dictionary is replaced by the one new entry)
Store_mut(id) == {NameUrl(id)}

\* parsed_news[news_item['id']] = name_url_tpl
Store(id) == {e \in parsed_news : e.id # id} \cup {NameUrl(id)}

Stop(why) == pc' = "stopped" /\ fphase' = "none" /\ ended' = why

ResetLocals == comment_items' = <<>> /\ ci' = 0 /\ li' = 0 /\ link_num' = 0

\* (mutant: run_once is not looked at)
AfterLoop_mut ==
    /\ pc' = "sleep" /\ fphase' = "none" /\ UNCHANGED ended
    /\ UNCHANGED must_cancel

\* What follows the for loop: the session is closed, then run_once decides.
\* Closing the session may suspend, and a noted cancellation is then
\* delivered there.
AfterLoop ==
    \/ /\ IF run_once
          THEN Stop("once")
          ELSE pc' = "sleep" /\ fphase' = "none" /\ UNCHANGED ended
       /\ UNCHANGED must_cancel
    \/ /\ must_cancel
       /\ Stop("cancelled")
       /\ must_cancel' = FALSE

(* ------------------------------ actions ------------------------------- *)
\* async with self.semaphore: the gate is entered and the GET is sent.
Acquire ==
    /\ UNCHANGED clean
    /\ fphase = "acquire"
    /\ CanAcquire(sem)
    /\ sem' = sem - 1
    /\ open' = open + 1
    /\ fphase' = "get"
    /\ last' = NoResult
    /\ UNCHANGED <<config, fnvars, pc, news, idx, locals, parsed_news, archive, cycles, ended,
                   interrupt_count, must_cancel, considered, failed>>

\* The front-page GET is over: the rest of read_url, parse_main_page and
\* run() up to the for loop.
MainPageDone ==
    /\ clean' = FALSE
    /\ pc = "main" /\ fphase = "get" /\ ~must_cancel
    /\ \E o \in Outcomes, page \in FrontPages :
        LET r == ReadUrlResult(o) IN
        /\ Exit
        /\ last' = Returned("main", o, 0, <<0, 0>>, FALSE, <<>>)
        /\ IF Escapes(o) THEN Stop("ClientError") /\ UNCHANGED <<news, idx, considered>>
           ELSE IF MainFailed(r) THEN Stop("no_news") /\ UNCHANGED <<news, idx, considered>>
           ELSE IF ~page.table THEN Stop("AttributeError") /\ UNCHANGED <<news, idx, considered>>
           ELSE /\ news' = page.rows
                /\ considered' = <<>>
                /\ IF NoNews(page.rows)
                   THEN Stop("no_news") /\ UNCHANGED idx
                   ELSE /\ pc' = "loop" /\ fphase' = "none" /\ idx' = 1
                        /\ UNCHANGED ended
    /\ UNCHANGED <<config, fnvars, locals, parsed_news, archive, cycles, interrupt_count,
                   must_cancel, failed>>

\* The for loop takes an entry that is not in parsed_news: parse_item is
\* called and reaches read_url.
Dispatch ==
    /\ clean' = FALSE
    /\ pc = "loop" /\ idx <= Len(Top)
    /\ ~InParsedNews(Top[idx])
    /\ pc' = "item" /\ fphase' = "acquire"
    /\ considered' = Append(considered, Top[idx])
    /\ last' = NoResult
    /\ UNCHANGED <<config, fnvars, sem, open, news, idx, locals, parsed_news, archive, cycles,
                   ended, interrupt_count, must_cancel, failed>>

\* The for loop takes an entry that is in parsed_news already.
SkipSeen ==
    /\ clean' = FALSE
    /\ pc = "loop" /\ idx <= Len(Top)
    /\ InParsedNews(Top[idx])
    /\ idx' = idx + 1
    /\ considered' = Append(considered, Top[idx])
    /\ last' = NoResult
    /\ UNCHANGED <<config, fnvars, pc, fphase, sem, open, news, locals, parsed_news, archive,
                   cycles, ended, interrupt_count, must_cancel, failed>>

\* The for loop is exhausted.
EndCycle ==
    /\ clean' = FALSE
    /\ pc = "loop" /\ idx > Len(Top)
    /\ AfterLoop
    /\ last' = NoResult
    /\ UNCHANGED <<config, fnvars, sem, open, news, idx, locals, parsed_news, archive, cycles,
                   interrupt_count, considered, failed>>

\* The story-page GET is over: the rest of read_url and parse_item, and
\* parse_comments up to its first read_url, or up to its return and the
\* assignment to parsed_news in run().
StoryPageDone ==
    /\ pc = "item" /\ fphase = "get" /\ ~must_cancel
    /\ \E o \in Outcomes, page \in StoryPages, titleline \in BOOLEAN :
        LET r == ReadUrlResult(o)
            id == Top[idx]
            rows == IF page.tree THEN page.rows ELSE <<>>
            first == NextPos(rows, <<0, 0>>)
            written == ~Escapes(o) /\ ~ItemSkipped(r) /\ titleline
        IN
        /\ Exit
        /\ last' = Returned("item", o, id, <<0, 0>>, FALSE,
                            IF written THEN StoryFile(id).name ELSE <<>>)
        /\ failed' = IF ~Escapes(o) /\ ItemSkipped(r) THEN failed \cup {id} ELSE failed
        /\ clean' = (o.t = "resp" /\ o.status = OK_STATUS /\ o.body = Body)
        /\ IF Escapes(o)
           THEN Stop("ClientError") /\ UNCHANGED <<idx, locals, parsed_news, archive>>
           ELSE IF ItemSkipped(r)
           THEN /\ pc' = "loop" /\ fphase' = "none" /\ idx' = idx + 1
                /\ UNCHANGED <<locals, parsed_news, archive, ended>>
           ELSE IF ~titleline
           THEN Stop("IndexError") /\ UNCHANGED <<idx, locals, parsed_news, archive>>
           ELSE /\ archive' = archive \cup {StoryFile(id)}
                /\ IF ~page.table
                   THEN Stop("AttributeError") /\ UNCHANGED <<idx, locals, parsed_news>>
                   ELSE IF first = <<0, 0>>
                   THEN /\ parsed_news' = Store(id)
                        /\ pc' = "loop" /\ fphase' = "none" /\ idx' = idx + 1
                        /\ UNCHANGED <<locals, ended>>
                   ELSE /\ comment_items' = rows
                        /\ ci' = first[1] /\ li' = first[2] /\ link_num' = 0
                        /\ pc' = "link" /\ fphase' = "acquire"
                        /\ UNCHANGED <<idx, parsed_news, ended>>
    /\ UNCHANGED <<config, fnvars, news, cycles, interrupt_count, must_cancel, considered>>

\* A comment-link GET is over: the rest of read_url, the rest of this pass
\* of the inner for loop, and parse_comments up to its next read_url, or up
\* to its return and the assignment to parsed_news in run().
CommentLinkDone ==
    /\ pc = "link" /\ fphase = "get" /\ ~must_cancel
    /\ \E o \in Outcomes :
        LET r == ReadUrlResult(o)
            id == Top[idx]
            nxt == AfterLink(comment_items, <<ci, li>>, r)
            num == LinkNumAfter(link_num, r)
            fname == CommentFileName(CommentId(id, ci), link_num, r.content_type,
                                     LinkUrl(li))
            written == ~Escapes(o) /\ ~LinkSkipped(r)
        IN
        /\ Exit
        /\ last' = Returned("link", o, id, <<ci, li>>,
                            \E q \in Positions(comment_items) : After(<<ci, li>>, q),
                            IF written THEN fname ELSE <<>>)
        /\ clean' = (clean /\ o.t = "resp" /\ o.status = OK_STATUS /\ o.body = Body
                            /\ o.ctype = HTML)
        /\ IF Escapes(o)
           THEN Stop("ClientError") /\ UNCHANGED <<idx, locals, parsed_news, archive>>
           ELSE /\ archive' = IF written THEN archive \cup {CommentFile(id, fname)}
                              ELSE archive
                /\ IF nxt = <<0, 0>>
                   THEN /\ parsed_news' = Store(id)
                        /\ pc' = "loop" /\ fphase' = "none" /\ idx' = idx + 1
                        /\ ResetLocals
                        /\ UNCHANGED ended
                   ELSE /\ ci' = nxt[1] /\ li' = nxt[2]
                        /\ link_num' = IF nxt[1] = ci THEN num ELSE 0
                        /\ pc' = "link" /\ fphase' = "acquire"
                        /\ UNCHANGED <<idx, comment_items, parsed_news, ended>>
    /\ UNCHANGED <<config, fnvars, news, cycles, interrupt_count, must_cancel, considered,
                   failed>>

\* asyncio.sleep(self.sleep) is over: a new session, parse_main_page again.
Wake ==
    /\ clean' = FALSE
    /\ pc = "sleep" /\ ~must_cancel
    /\ cycles < MaxCycles
    /\ pc' = "main" /\ fphase' = "acquire"
    /\ cycles' = cycles + 1
    /\ last' = NoResult
    /\ UNCHANGED <<config, fnvars, sem, open, news, idx, locals, parsed_news, archive, ended,
                   interrupt_count, must_cancel, considered, failed>>

\* CancelledError is thrown into run() at the await it is suspended in; no
\* except clause of the module catches it.
Cancelled ==
    /\ Stop("cancelled")
    /\ last' = NoResult
    /\ IF fphase = "get" THEN Exit ELSE UNCHANGED <<sem, open>>

\* The first SIGINT while run() is suspended: the main task is cancelled.
SigIntCancel ==
    /\ clean' = FALSE
    /\ pc # "stopped" /\ interrupt_count = 0 /\ Suspended
    /\ interrupt_count' = 1
    /\ Cancelled
    /\ UNCHANGED <<config, fnvars, news, idx, locals, parsed_news, archive, cycles, must_cancel,
                   considered, failed>>

\* The first SIGINT while run() is executing: the cancellation is noted and
\* is delivered at the next await that suspends.
SigIntPending ==
    /\ clean' = FALSE
    /\ pc # "stopped" /\ interrupt_count = 0 /\ ~Suspended
    /\ interrupt_count' = 1
    /\ must_cancel' = TRUE
    /\ last' = NoResult
    /\ UNCHANGED <<config, fnvars, pc, fphase, sem, open, news, idx, locals, parsed_news,
                   archive, cycles, ended, considered, failed>>

\* The noted cancellation is delivered.
CancelDeliver ==
    /\ clean' = FALSE
    /\ pc # "stopped" /\ must_cancel /\ Suspended
    /\ must_cancel' = FALSE
    /\ Cancelled
    /\ UNCHANGED <<config, fnvars, news, idx, locals, parsed_news, archive, cycles,
                   interrupt_count, considered, failed>>

\* A second SIGINT raises KeyboardInterrupt in the code that is executing.
\* Inside the try of the for loop (the test of parsed_news, parse_item and
\* what it calls) the except clause breaks out of the loop.
KeyboardInterruptInTry ==
    /\ clean' = FALSE
    /\ pc \in {"loop", "item", "link"} /\ interrupt_count = 1 /\ ~Suspended
    /\ ~(pc = "loop" /\ idx > Len(Top))
    /\ interrupt_count' = 2
    /\ AfterLoop
    /\ ResetLocals
    /\ last' = NoResult
    /\ UNCHANGED <<config, fnvars, sem, open, news, idx, parsed_news, archive, cycles,
                   considered, failed>>

\* Anywhere else KeyboardInterrupt leaves run() and the event loop.
KeyboardInterruptOutside ==
    /\ clean' = FALSE
    /\ pc # "stopped" /\ interrupt_count = 1
    /\ \/ Suspended
       \/ pc = "main"
       \/ pc = "loop" /\ idx > Len(Top)
    /\ interrupt_count' = 2
    /\ Stop("interrupt")
    /\ last' = NoResult
    /\ IF fphase = "get" THEN Exit ELSE UNCHANGED <<sem, open>>
    /\ UNCHANGED <<config, fnvars, news, idx, locals, parsed_news, archive, cycles, must_cancel,
                   considered, failed>>

Next ==
    \/ Acquire
    \/ MainPageDone
    \/ Dispatch
    \/ SkipSeen
    \/ EndCycle
    \/ StoryPageDone
    \/ CommentLinkDone
    \/ Wake
    \/ SigIntCancel
    \/ SigIntPending
    \/ CancelDeliver
    \/ KeyboardInterruptInTry
    \/ KeyboardInterruptOutside

Spec == Init /\ [][Next]_vars

\* The steps of run() itself, without the signals. The event loop has this
\* one task to run, every GET ends (ClientTimeout bounds it) and the timer of
\* asyncio.sleep fires, so a step that stays possible is taken.
Step ==
    \/ Acquire
    \/ MainPageDone
    \/ Dispatch
    \/ SkipSeen
    \/ EndCycle
    \/ StoryPageDone
    \/ CommentLinkDone
    \/ Wake
    \/ CancelDeliver

FairSpec == Spec /\ WF_vars(Step)

(* ---------------------- make_safe_filename on its own ------------------ *)
\* The characters the texts are made of: a letter, a blank, a tab, an
\* underscore and a character that is neither alphanumeric nor whitespace.
TextChars == {"A", " ", "\t", "_", "/"}

Texts == UNION {[1..n -> TextChars] : n \in 0..MaxText}

InitFn ==
    /\ InitRun
    /\ max_tasks = 1 /\ top_news_count = 0 /\ run_once
    /\ text \in Texts
    /\ filename = <<>>

\* One call of make_safe_filename(text).
Sanitize ==
    /\ filename = <<>>
    /\ filename' = make_safe_filename(text)
    /\ UNCHANGED <<config, text, pc, fphase, sem, open, news, idx, locals, parsed_news,
                   archive, cycles, ended, interrupt_count, must_cancel, last,
                   considered, failed, clean>>

SpecFn == InitFn /\ [][Sanitize]_vars

(* ------------------------------ properties ---------------------------- *)
SeenIds == {e.id : e \in parsed_news}
MinKN == IF top_news_count < Len(news) THEN top_news_count ELSE Len(news)
Errors == {"ClientError", "IndexError", "AttributeError"}
Success == 200..299

\* C1: the fetches in flight never outnumber max_tasks, and every GET in
\* flight, whether for the front page, a story page or a comment link, is
\* counted inside the one gate.
C1_GateBound ==
    /\ open <= max_tasks
    /\ fphase = "get" => open >= 1 /\ pc \in {"main", "item", "link"}

\* A comment-link fetch is in flight with the gate at capacity.
C1_Witness == pc = "link" /\ fphase = "get" /\ open = max_tasks /\ max_tasks = 1

\* C2: while parse_item runs for an id, the id is not in parsed_news: no
\* invocation starts for an id that is already there, in any cycle.
C2_NoRedispatch ==
    pc \in {"item", "link"} => Top[idx] \notin SeenIds

\* In the second cycle the loop has just passed over an id stored before.
C2_Witness ==
    /\ cycles = 2 /\ pc = "loop" /\ interrupt_count = 0 /\ last = NoResult
    /\ idx > 1 /\ Len(considered) = idx - 1
    /\ considered[idx - 1] \in SeenIds

\* C3: the entries looked at in a cycle are a prefix of the listing, taken
\* one at a time in listing order, never more than min(k, N) of them, and
\* exactly min(k, N) once the for loop has run out.
C3_TopK ==
    /\ Len(considered) <= MinKN
    /\ considered = SubSeq(news, 1, Len(considered))
    /\ pc = "loop" => Len(considered) = idx - 1
    /\ pc \in {"item", "link"} => Len(considered) = idx
    /\ (pc = "sleep" \/ ended = "once") /\ interrupt_count < 2
          => Len(considered) = MinKN

\* A cycle over a two-entry listing with top_news_count = 1 is complete.
C3_Witness ==
    /\ pc = "sleep" /\ interrupt_count = 0
    /\ Len(news) = 2 /\ top_news_count = 1 /\ considered = <<news[1]>>

\* C4: a GET that times out gives (None, 408) without an exception; after a
\* story page timed out parse_item has returned nothing and the loop has
\* moved on; after a comment link timed out nothing is written and
\* parse_comments has moved on to a later link or has returned.
C4_Timeout ==
    last.outcome = "timeout" =>
        /\ ~last.raised /\ last.status = TIMEOUT_STATUS /\ last.response = None
        /\ last.file = <<>>
        /\ ended \notin Errors
        /\ last.kind = "main" => ended = "no_news"
        /\ last.kind = "item" =>
              /\ pc = "loop" /\ idx = Len(considered) + 1
              /\ last.id \notin SeenIds
        /\ last.kind = "link" =>
              IF last.more
              THEN pc = "link" /\ fphase = "acquire" /\ After(last.pos, <<ci, li>>)
              ELSE pc = "loop" /\ last.id \in SeenIds

\* A comment link has timed out and the next link is about to be fetched.
C4_Witness == last.outcome = "timeout" /\ last.kind = "link" /\ pc = "link"

\* C5: a transport failure other than a timeout does not leave read_url as
\* an exception: it is returned as a non-2xx status with an empty payload
\* and the run goes on.
C5_NoEscape ==
    last.outcome = "error" =>
        /\ ~last.raised
        /\ Falsy(last.response) /\ last.status \notin Success
        /\ ended # "ClientError"

\* C6: a comment-link file is named after the comment and the position of
\* the link in the comment, counted from 0.
C6_DocumentOrdinal ==
    last.kind = "link" /\ last.file # <<>> =>
        /\ last.file[1] = ToString(CommentId(last.id, last.pos[1]))
        /\ last.file[3] = ToString(last.pos[2] - 1)

\* C7: a payload that came with a non-2xx status is not written, and a story
\* page that came with one is not stored in parsed_news.
C7_StatusChecked ==
    last.kind # "none" /\ ~last.raised /\ last.status \notin Success =>
        /\ last.file = <<>>
        /\ last.kind = "item" => StoryFile(last.id) \notin archive /\ last.id \notin SeenIds

\* After a story page without a payload: no file of the story exists, the id
\* is not stored, the loop stands at the next entry.
C8_Aborted ==
    last.kind = "item" /\ ~last.raised /\ Falsy(last.response) =>
        /\ last.file = <<>>
        /\ \A f \in archive : f.story # last.id
        /\ last.id \notin SeenIds
        /\ last.id \in failed
        /\ pc = "loop" /\ ended = "" /\ idx = Len(considered) + 1

\* At an id that failed before and is not stored, the step the program takes
\* (a signal apart) is the call of parse_item.
C8_Retried ==
    /\ pc = "loop" /\ idx <= Len(Top)
    /\ Top[idx] \in failed /\ Top[idx] \notin SeenIds
    /\ interrupt_count' = interrupt_count
    => pc' = "item" /\ fphase' = "acquire" /\ idx' = idx

\* C8: a story page without a payload aborts that story only: no file of the
\* story exists, the id is not stored, the loop goes on with the next entry;
\* and whenever the loop stands at an id that failed before and is not
\* stored, in this cycle or a later one, parse_item is called for it again.
C8_RetryNextCycle == [](C8_Aborted) /\ [][C8_Retried]_vars

\* In the second cycle parse_item runs again for an id that failed before.
C8_Witness == cycles = 2 /\ pc = "item" /\ Top[idx] \in failed

\* C9: a comment link that timed out, came back empty or came back with a
\* status other than 200 is skipped and nothing else: nothing is written,
\* the loops go on with the very next link of the page if there is one, and
\* otherwise parse_item returns and the story is stored; parse_item never
\* returns from a link while links are left.
C9_LinkContained ==
    /\ last.kind = "link" /\ ~last.raised
          /\ (Falsy(last.response) \/ last.status # OK_STATUS)
       => /\ last.file = <<>> /\ ended = ""
          /\ IF last.more
             THEN /\ pc = "link" /\ fphase = "acquire"
                  /\ last.id = Top[idx]
                  /\ <<ci, li>> \in Positions(comment_items)
                  /\ After(last.pos, <<ci, li>>)
                  /\ ~\E q \in Positions(comment_items) :
                          After(last.pos, q) /\ After(q, <<ci, li>>)
             ELSE pc = "loop" /\ NameUrl(last.id) \in parsed_news
    /\ last.kind = "link" /\ pc = "loop"
       => ~last.more /\ NameUrl(last.id) \in parsed_news

\* A link came back with 404 and the first link of a later comment is next.
C9_Witness ==
    /\ last.kind = "link" /\ last.outcome = "resp" /\ last.status \in Statuses \ {OK_STATUS}
    /\ last.more /\ pc = "link" /\ ci > last.pos[1]

\* C10: outside parse_item, every story whose page is in the archive is in
\* parsed_news, however its comment processing ended.
C10_ArchivedIsSeen ==
    pc \notin {"item", "link"} =>
        \A id \in Ids : StoryFile(id) \in archive => id \in SeenIds

\* C11: when the GET of the front page comes back without a payload (a
\* timeout included) or with a status other than 200, run() is stopped in
\* that very step with no GET open and no story in hand, and from then on it
\* never leaves that state: no story is dispatched, it does not sleep and it
\* does not poll again, with run_once or without.
C11_Failed ==
    /\ last.kind = "main" /\ ~last.raised
    /\ (Falsy(last.response) \/ last.status # OK_STATUS)

C11_StoppedNow ==
    C11_Failed => /\ pc = "stopped" /\ ended = "no_news"
                  /\ fphase = "none" /\ open = 0

C11_StaysStopped ==
    ended = "no_news" => /\ pc' = "stopped" /\ fphase' = "none"
                         /\ cycles' = cycles /\ considered' = considered
                         /\ archive' = archive /\ parsed_news' = parsed_news

C11_FailedPollStops == [](C11_StoppedNow) /\ [][C11_StaysStopped]_vars

\* The second poll of a continuous run came back with a status other than 200.
C11_Witness ==
    /\ C11_Failed /\ ~run_once /\ cycles = 2
    /\ last.outcome = "resp" /\ last.response = Body /\ pc = "stopped"

\* C12: once run() has been given the interrupt (the CancelledError of the
\* first SIGINT was delivered at an await, or the KeyboardInterrupt of the
\* second was raised in its code) it is stopped: no story in hand, no GET
\* begun or waited for, not sleeping, not about to poll, with run_once or
\* without.
C12_Observed ==
    interrupt_count = 2 \/ (interrupt_count = 1 /\ ~must_cancel)

C12_StopsAtOnce ==
    C12_Observed => pc = "stopped" /\ fphase = "none" /\ open = 0

\* C13: with run_once the front page is polled once in the whole run, the
\* end of the for loop stops run(), and a run whose GETs are admitted
\* (max_tasks >= 1) does stop; without run_once the end of the for loop leads
\* to asyncio.sleep, and the only way on from there, short of an interrupt,
\* is the next poll of the front page, which does follow (as far as the
\* explored number of cycles goes).
C13_OnePoll == run_once => cycles = 1

C13_AfterCycle ==
    (pc = "loop" /\ idx > Len(Top) /\ interrupt_count = 0 /\ interrupt_count' = 0)
        => IF run_once
           THEN pc' = "stopped" /\ ended' = "once" /\ cycles' = 1
           ELSE pc' = "sleep" /\ ended' = "" /\ cycles' = cycles

C13_Wakes ==
    (pc = "sleep" /\ pc' # "sleep" /\ interrupt_count' = interrupt_count /\ ~must_cancel)
        => pc' = "main" /\ fphase' = "acquire" /\ cycles' = cycles + 1

C13_Terminates == (run_once /\ max_tasks >= 1) ~> (pc = "stopped")

C13_PollsAgain ==
    (pc = "sleep" /\ cycles < MaxCycles) ~> (pc = "main" \/ pc = "stopped")

C13_CycleEnds ==
    /\ [](C13_OnePoll)
    /\ [][C13_AfterCycle /\ C13_Wakes]_vars
    /\ C13_Terminates
    /\ C13_PollsAgain

\* A single pass that archived a story has ended at the end of its for loop.
C13_Witness ==
    run_once /\ ended = "once" /\ parsed_news # {} /\ cycles = 1 /\ interrupt_count = 0

\* C14: when the page of a story and every link of its comments came back
\* with 200 and a payload, the links as text/html, then on return to the for
\* loop the archive holds <id>/<sanitised title>.html, for every comment with
\* m links the files <id>/comments/<comment id>_0.html .. _(m-1).html, and
\* parsed_news holds the id with its title and url.
C14_StoryName(id) ==
    IF id % 2 = 1 THEN <<"A", "_", "B", "_", " ", "C", ".html">> ELSE <<"B", "1", ".html">>

C14_LinkName(id, q) == <<ToString(CommentId(id, q[1])), "_", ToString(q[2] - 1), ".html">>

C14_StoryDone ==
    (last.kind \in {"item", "link"} /\ clean /\ pc = "loop")
        => /\ [story |-> last.id, comments |-> FALSE, name |-> C14_StoryName(last.id)]
                \in archive
           /\ \E e \in parsed_news : e.id = last.id /\ e.name = TitleOf(last.id)

C14_LinksDone ==
    (pc = "link" /\ pc' = "loop" /\ clean')
        => \A q \in Positions(comment_items) :
               [story |-> Top[idx], comments |-> TRUE, name |-> C14_LinkName(Top[idx], q)]
                   \in archive'

C14_AllArchived == [](C14_StoryDone) /\ [][C14_LinksDone]_vars

\* A story with two comments, the second with two links, came through clean.
C14_Witness ==
    /\ last.kind = "link" /\ clean /\ pc = "loop" /\ last.pos = <<2, 2>>
    /\ last.id = 1

\* C15: whatever the text, make_safe_filename returns a name that ends in
\* ".html"; the part before it is made of alphanumerics, whitespace and
\* underscores only, neither begins nor ends with an underscore or a
\* whitespace character, and is a stretch of the text in which every
\* character that is neither alphanumeric nor whitespace stands as one
\* underscore in its place.
C15_Stem == SubSeq(filename, 1, Len(filename) - 1)

C15_SafeName ==
    filename # <<>> =>
        /\ filename[Len(filename)] = ".html"
        /\ \A i \in 1..Len(C15_Stem) : C15_Stem[i] \in Alnum \cup Space \cup {"_"}
        /\ C15_Stem # <<>> =>
               /\ C15_Stem[1] \notin Space \cup {"_"}
               /\ C15_Stem[Len(C15_Stem)] \notin Space \cup {"_"}
        /\ \E k \in 0..Len(text) :
               /\ k + Len(C15_Stem) <= Len(text)
               /\ \A i \in 1..Len(C15_Stem) :
                      C15_Stem[i] = IF text[i + k] \in Alnum \cup Space
                                    THEN text[i + k] ELSE "_"

\* C16: no step takes an id out of parsed_news or changes the entry of an id
\* that is in it; parsed_news changes only by gaining the entry of one id that
\* was not in it, in the step in which parse_item returns its (name, url) to
\* the for loop for the story in hand, and in the state it then is in no GET
\* is open or waited for.
C16_Grows ==
    /\ parsed_news \subseteq parsed_news'
    /\ parsed_news' # parsed_news =>
           /\ pc \in {"item", "link"} /\ fphase = "get" /\ pc' = "loop"
           /\ Top[idx] \notin SeenIds
           /\ parsed_news' = parsed_news \cup {NameUrl(Top[idx])}
           /\ \A e \in parsed_news' : \A f \in parsed_news' : e.id = f.id => e = f
           /\ open' = 0 /\ fphase' = "none" /\ sem' = max_tasks

C16_SeenSetMonotone == [][C16_Grows]_vars

\* A second story has just been added to parsed_news.
C16_Witness ==
    /\ Cardinality(parsed_news) = 2 /\ last.kind \in {"item", "link"} /\ pc = "loop"
    /\ NameUrl(last.id) \in parsed_news

\* C17: markup that is not there never ends run() with an exception: a front
\* page or a story page without a table, a story page without a comment tree
\* or without a titleline and a comment without a text node are all read as
\* "nothing found", and run() goes on.
C17_MissNeverRaises == ended \notin {"AttributeError", "IndexError"}

\* C18: one thing at a time. At most one GET is open whatever max_tasks is;
\* the story in hand is the last one the for loop reached, the ones reached
\* so far being the listing in its order; while the links of a story are
\* being fetched its page is already in the archive; the first link fetched
\* is the first of the page and the link fetched after one is the very next
\* in document order.
C18_Sequential ==
    /\ open <= 1
    /\ fphase = "get" => open = 1
    /\ pc \in {"item", "link"} =>
           /\ idx = Len(considered)
           /\ considered = SubSeq(news, 1, idx)
    /\ pc = "link" =>
           /\ StoryFile(Top[idx]) \in archive
           /\ <<ci, li>> \in Positions(comment_items)
    /\ (pc = "link" /\ last.kind = "item") =>
           ~\E q \in Positions(comment_items) : After(q, <<ci, li>>)
    /\ (pc = "link" /\ last.kind = "link") =>
           /\ After(last.pos, <<ci, li>>)
           /\ ~\E q \in Positions(comment_items) :
                   After(last.pos, q) /\ After(q, <<ci, li>>)

\* The second link of a page is being fetched, by the one GET that is open,
\* while max_tasks would admit another.
C18_Witness ==
    /\ pc = "link" /\ fphase = "get" /\ open = 1 /\ max_tasks = 2 /\ sem = 1
    /\ \E q \in Positions(comment_items) : After(q, <<ci, li>>)
    /\ idx = 2

\* C19: the gate loses no permit. The free permits and the open GETs always
\* add up to max_tasks, and with no GET open all permits are free; every
\* step that ends a GET (a response, a timeout, a transport exception, a
\* cancellation) hands back exactly one permit; and with max_tasks >= 1 a
\* read_url that stands at the gate finds a permit free, so it gets past it.
C19_Balance ==
    /\ sem >= 0 /\ open >= 0
    /\ sem + open = max_tasks
    /\ fphase # "get" => open = 0 /\ sem = max_tasks
    /\ (max_tasks >= 1 /\ fphase = "acquire") => sem >= 1

C19_Released ==
    (fphase = "get" /\ fphase' # "get") => sem' = sem + 1 /\ open' = open - 1

C19_Admitted == (max_tasks >= 1 /\ fphase = "acquire") ~> (fphase # "acquire")

C19_NoLeak == [](C19_Balance) /\ [][C19_Released]_vars /\ C19_Admitted

\* The GET of a comment link ended in a transport exception and both permits
\* are free again.
C19_Witness ==
    /\ last.kind = "link" /\ last.raised /\ max_tasks = 2 /\ sem = 2 /\ open = 0

\* C20: when the GET of the front page came back with 200 and a payload and
\* the listing read from it is empty, run() is stopped in that very step as
\* after a failed GET of the front page, and stays so: it does not sleep and
\* does not poll again, with run_once or without. (A listing that is not
\* empty leads into the for loop.)
C20_Fetched ==
    /\ last.kind = "main" /\ ~last.raised /\ last.outcome = "resp"
    /\ last.status = OK_STATUS /\ last.response = Body
    /\ ended \notin Errors

C20_StoppedNow ==
    C20_Fetched =>
        IF news = <<>>
        THEN pc = "stopped" /\ ended = "no_news" /\ fphase = "none" /\ open = 0
        ELSE pc = "loop" /\ ended = ""

C20_StaysStopped ==
    (pc = "stopped" /\ ended = "no_news") => UNCHANGED <<pc, fphase, cycles, ended>>

C20_EmptyListingStops == [](C20_StoppedNow) /\ [][C20_StaysStopped]_vars

\* The second poll of a continuous run found an empty listing.
C20_Witness ==
    /\ C20_Fetched /\ news = <<>> /\ ~run_once /\ cycles = 2 /\ pc = "stopped"

=============================================================================
